---- MODULE Spec2Model ----
(***************************************************************************)
(* A model of pydantic_metamodel.api: records whose fields carry predicate *)
(* annotations are rendered into an RDF graph (a set of triples).          *)
(*                                                                         *)
(* Python values are tagged records: [t |-> <python type>, ...].  RDF      *)
(* terms are [k |-> "URIRef" | "Literal", lex |-> <text>, dt |-> <type>].  *)
(* A call in progress threads st = [graph, log, err]: the graph it writes  *)
(* to, the graph.add calls it made in order, and the exception in flight.  *)
(***************************************************************************)
EXTENDS Integers, Sequences, FiniteSets, TLC

VARIABLES
    graph,   \* the triples of the rdflib.Graph the last call wrote to
    log,     \* the graph.add calls of the last call, in order
    err,     \* the exception the last call raised (NoError when it returned)
    call,    \* the last call and its arguments
    pre,     \* the triples of the graph when the last call started
    ncalls   \* the number of calls made on the current graph since it was created

vars == <<graph, log, err, call, pre, ncalls>>

-----------------------------------------------------------------------------
(* Bounds *)

MaxListLen == 2
MaxCalls == 1

-----------------------------------------------------------------------------
(* rdflib terms *)

URIRef(s) == [k |-> "URIRef", lex |-> s, dt |-> ""]

RDF_type == URIRef("rdf:type")
RDFS_label == URIRef("rdfs:label")
FOAF_member == URIRef("foaf:member")
HAS_WIKIDATA == URIRef("ex:hasWikidata")
SDO_Person == URIRef("sdo:Person")
SDO_Organization == URIRef("sdo:Organization")

ORCID == "orcid:"
ROR == "ror:"
WIKIDATA == "wd:"

\* rdflib's Literal(value) for a Python scalar: the lexical form and the datatype
\* the Python type maps to (a str gives a plain literal)
Literal(value) ==
    [k |-> "Literal",
     lex |-> value.s,
     dt |-> CASE value.t = "str" -> ""
              [] value.t = "bool" -> "xsd:boolean"
              [] value.t = "int" -> "xsd:integer"
              [] value.t = "float" -> "xsd:double"]

\* rdflib's Namespace.__getitem__: the namespace followed by the key when the key
\* is text, and by nothing when it is not
Namespace_getitem(namespace, value) ==
    URIRef(namespace \o (IF value.t = "str" THEN value.s ELSE ""))

-----------------------------------------------------------------------------
(* Python values *)

PyStr(s) == [t |-> "str", s |-> s]
PyFloat(s) == [t |-> "float", s |-> s]
PyInt(s) == [t |-> "int", s |-> s]
PyBool(s) == [t |-> "bool", s |-> s]
LiteralValue(term) == [t |-> "Literal", lit |-> term]
List(items) == [t |-> "list", items |-> items]
None == [t |-> "None"]
AnyUrl(s) == [t |-> "AnyUrl", s |-> s]
Model(rec) == [t |-> "RDFInstanceBaseModel", rec |-> rec]

\* str(value), as the f-string of the error message formats it
Repr(value) ==
    CASE value.t = "None" -> "None"
      [] value.t \in {"str", "float", "int", "bool", "AnyUrl"} -> value.s
      [] value.t = "Literal" -> value.lit.lex
      [] OTHER -> value.t

-----------------------------------------------------------------------------
(* Field metadata *)

WithPredicate(predicate) ==
    [cls |-> "WithPredicate", predicate |-> predicate, namespace |-> ""]

WithPredicateNamespace(predicate, namespace) ==
    [cls |-> "WithPredicateNamespace", predicate |-> predicate, namespace |-> namespace]

\* metadata that is no PredicateAnnotation, such as a validation constraint
MinLen == [cls |-> "MinLen", predicate |-> URIRef(""), namespace |-> ""]

\* a test that every entry of the metadata passes
isinstance_PredicateAnnotation_any(annotation) == TRUE

isinstance_PredicateAnnotation(annotation) ==
    annotation.cls \in {"WithPredicate", "WithPredicateNamespace"}

-----------------------------------------------------------------------------
(* The call in progress *)

NoError == [type |-> "", msg |-> ""]

Raised(st) == st.err.type # ""

Raise(st, type, msg) == [st EXCEPT !.err = [type |-> type, msg |-> msg]]

Graph == [graph |-> {}, log |-> <<>>, err |-> NoError]

graph_add(st, triple) ==
    [st EXCEPT !.graph = @ \cup {triple}, !.log = Append(@, triple)]

-----------------------------------------------------------------------------
(* Record instances: [rdf_type, ns, fields], fields in declared order, each  *)
(* [name, metadata, value].  The first field holds the external identifier. *)

\* the identifier derivation of the record classes: the namespace of the class
\* followed by the instance's external identifier
get_uri(self) == Namespace_getitem(self.ns, self.fields[1].value)

RECURSIVE WithPredicate_add_to_graph(_, _, _, _)
RECURSIVE WithPredicate_for_subvalue(_, _, _, _, _)
RECURSIVE RDFInstanceBaseModel_add_to_graph(_, _)
RECURSIVE RDFInstanceBaseModel_for_field(_, _, _, _)
RECURSIVE RDFInstanceBaseModel_for_annotation(_, _, _, _)

\* a loop that handles the first element only
WithPredicate_for_subvalue_first_only(self, st, node, items, i) ==
    IF Raised(st) \/ i > Len(items) \/ i > 1
    THEN st
    ELSE WithPredicate_add_to_graph(self, st, node, items[i])

\* the loop over the elements of a list value, from element i on; an exception
\* ends it
WithPredicate_for_subvalue(self, st, node, items, i) ==
    IF Raised(st) \/ i > Len(items)
    THEN st
    ELSE WithPredicate_for_subvalue(
             self, WithPredicate_add_to_graph(self, st, node, items[i]), node, items, i + 1)

\* a dispatch that links the node to the nested record it has rendered
WithPredicate_add_to_graph_linking(self, st, node, value) ==
    IF value.t = "RDFInstanceBaseModel"
    THEN IF Raised(RDFInstanceBaseModel_add_to_graph(value.rec, st))
         THEN RDFInstanceBaseModel_add_to_graph(value.rec, st)
         ELSE graph_add(RDFInstanceBaseModel_add_to_graph(value.rec, st),
                        <<node, self.predicate, get_uri(value.rec)>>)
    ELSE IF value.t = "Literal"
    THEN graph_add(st, <<node, self.predicate, value.lit>>)
    ELSE IF value.t \in {"str", "float", "int", "bool"}
    THEN graph_add(st, <<node, self.predicate, Literal(value)>>)
    ELSE IF value.t = "list"
    THEN WithPredicate_for_subvalue(self, st, node, value.items, 1)
    ELSE Raise(st, "NotImplementedError", "unhandled: " \o Repr(value))

\* a dispatch that lets an unhandled value pass
WithPredicate_add_to_graph_lenient(self, st, node, value) ==
    IF value.t = "RDFInstanceBaseModel"
    THEN RDFInstanceBaseModel_add_to_graph(value.rec, st)
    ELSE IF value.t = "Literal"
    THEN graph_add(st, <<node, self.predicate, value.lit>>)
    ELSE IF value.t \in {"str", "float", "int", "bool"}
    THEN graph_add(st, <<node, self.predicate, Literal(value)>>)
    ELSE IF value.t = "list"
    THEN WithPredicate_for_subvalue(self, st, node, value.items, 1)
    ELSE st

WithPredicate_add_to_graph(self, st, node, value) ==
    IF value.t = "RDFInstanceBaseModel"
    THEN RDFInstanceBaseModel_add_to_graph(value.rec, st)
    ELSE IF value.t = "Literal"
    THEN graph_add(st, <<node, self.predicate, value.lit>>)
    ELSE IF value.t \in {"str", "float", "int", "bool"}
    THEN graph_add(st, <<node, self.predicate, Literal(value)>>)
    ELSE IF value.t = "list"
    THEN WithPredicate_for_subvalue(self, st, node, value.items, 1)
    ELSE Raise(st, "NotImplementedError", "unhandled: " \o Repr(value))

\* a write of the bare value, the namespace left off
WithPredicateNamespace_add_to_graph_bare(self, st, node, value) ==
    graph_add(st, <<node, self.predicate, Namespace_getitem("", value)>>)

WithPredicateNamespace_add_to_graph(self, st, node, value) ==
    graph_add(st, <<node, self.predicate, Namespace_getitem(self.namespace, value)>>)

\* annotation.add_to_graph(graph, node, value), dispatched on the annotation's class
PredicateAnnotation_add_to_graph(annotation, st, node, value) ==
    IF annotation.cls = "WithPredicate"
    THEN WithPredicate_add_to_graph(annotation, st, node, value)
    ELSE WithPredicateNamespace_add_to_graph(annotation, st, node, value)

\* the loop over field.metadata, from entry j on
RDFInstanceBaseModel_for_annotation(field, st, node, j) ==
    IF Raised(st) \/ j > Len(field.metadata)
    THEN st
    ELSE RDFInstanceBaseModel_for_annotation(
             field,
             IF isinstance_PredicateAnnotation(field.metadata[j])
             THEN PredicateAnnotation_add_to_graph(field.metadata[j], st, node, field.value)
             ELSE st,
             node, j + 1)

\* a loop that goes on to the fields left after an exception and raises it at the end
RDFInstanceBaseModel_for_field_deferred(self, st, node, i) ==
    IF i > Len(self.fields)
    THEN st
    ELSE RDFInstanceBaseModel_for_field(
             self,
             [RDFInstanceBaseModel_for_annotation(
                  self.fields[i], [st EXCEPT !.err = NoError], node, 1)
                 EXCEPT !.err = IF Raised(st) THEN st.err ELSE @],
             node, i + 1)

\* the loop over model_fields.items(), from field i on
RDFInstanceBaseModel_for_field(self, st, node, i) ==
    IF Raised(st) \/ i > Len(self.fields)
    THEN st
    ELSE RDFInstanceBaseModel_for_field(
             self, RDFInstanceBaseModel_for_annotation(self.fields[i], st, node, 1), node, i + 1)

\* a render that adds the type triple after the fields
RDFInstanceBaseModel_add_to_graph_type_last(self, st) ==
    IF Raised(RDFInstanceBaseModel_for_field(self, st, get_uri(self), 1))
    THEN RDFInstanceBaseModel_for_field(self, st, get_uri(self), 1)
    ELSE graph_add(RDFInstanceBaseModel_for_field(self, st, get_uri(self), 1),
                   <<get_uri(self), RDF_type, self.rdf_type>>)

RDFInstanceBaseModel_add_to_graph(self, st) ==
    RDFInstanceBaseModel_for_field(
        self, graph_add(st, <<get_uri(self), RDF_type, self.rdf_type>>), get_uri(self), 1)

RDFBaseModel_get_graph(self) == RDFInstanceBaseModel_add_to_graph(self, Graph)

-----------------------------------------------------------------------------
(* Untyped records and triple records.  An untyped record is [fields]; its   *)
(* node is the identifier its first field holds.  A triple record is         *)
(* [node, fields], with one field for each role of the statement.            *)

RDF_Statement == URIRef("rdf:Statement")
RDF_subject == URIRef("rdf:subject")
RDF_predicate == URIRef("rdf:predicate")
RDF_object == URIRef("rdf:object")

PydURIRef(s) == [t |-> "URIRef", s |-> s]
Untyped(rec) == [t |-> "RDFUntypedInstanceBaseModel", rec |-> rec]

IsSubject == [cls |-> "IsSubject", predicate |-> URIRef(""), namespace |-> ""]
IsPredicate == [cls |-> "IsPredicate", predicate |-> URIRef(""), namespace |-> ""]
IsObject == [cls |-> "IsObject", predicate |-> URIRef(""), namespace |-> ""]

\* Entity.get_node: the identifier the record's uri field holds
get_node(self) == URIRef(self.fields[1].value.s)

\* the render of a record that declares no type: the fields only
RDFUntypedInstanceBaseModel_add_to_graph(self, st) ==
    RDFInstanceBaseModel_for_field(self, st, get_node(self), 1)

\* does the field carry the role's annotation
HasRole(field, role) == \E j \in DOMAIN field.metadata : field.metadata[j].cls = role

RoleFields(self, role) == {i \in DOMAIN self.fields : HasRole(self.fields[i], role)}

\* the value of a role as an identifier, [st, node]: a nested record is rendered
\* and gives its node, an identifier gives itself, anything else is a TypeError;
\* a role no field carries is a KeyError naming the role
RDFTripleBaseModel_get(self, role, st) ==
    IF Raised(st)
    THEN [st |-> st, node |-> URIRef("")]
    ELSE IF RoleFields(self, role) = {}
    THEN [st |-> Raise(st, "KeyError", role), node |-> URIRef("")]
    ELSE LET value == self.fields[CHOOSE i \in RoleFields(self, role) : TRUE].value
         IN  IF value.t = "RDFInstanceBaseModel"
             THEN [st |-> RDFInstanceBaseModel_add_to_graph(value.rec, st),
                   node |-> get_uri(value.rec)]
             ELSE IF value.t = "RDFUntypedInstanceBaseModel"
             THEN [st |-> RDFUntypedInstanceBaseModel_add_to_graph(value.rec, st),
                   node |-> get_node(value.rec)]
             ELSE IF value.t = "URIRef"
             THEN [st |-> st, node |-> URIRef(value.s)]
             ELSE [st |-> Raise(st, "TypeError", Repr(value)), node |-> URIRef("")]

\* the base triple and the four triples of the reified statement
RDFTripleBaseModel_statement(st, node, s, p, o) ==
    IF Raised(st)
    THEN st
    ELSE graph_add(
             graph_add(
                 graph_add(
                     graph_add(graph_add(st, <<s, p, o>>), <<node, RDF_type, RDF_Statement>>),
                     <<node, RDF_subject, s>>),
                 <<node, RDF_predicate, p>>),
             <<node, RDF_object, o>>)

RDFTripleBaseModel_add_to_graph(self, st) ==
    LET s == RDFTripleBaseModel_get(self, "IsSubject", st)
        p == RDFTripleBaseModel_get(self, "IsPredicate", s.st)
        o == RDFTripleBaseModel_get(self, "IsObject", p.st)
    IN  RDFInstanceBaseModel_for_field(
            self, RDFTripleBaseModel_statement(o.st, self.node, s.node, p.node, o.node),
            self.node, 1)

-----------------------------------------------------------------------------
(* The records, values and annotations the calls are made with *)

SeqsUpTo(S, n) == UNION {[1..m -> S] : m \in 0..n}

Field(name, metadata, value) == [name |-> name, metadata |-> metadata, value |-> value]

\* class Organization(RDFInstanceBaseModel): ror, name
Organization(ror, name) ==
    [rdf_type |-> SDO_Organization,
     ns |-> ROR,
     fields |-> <<Field("ror", <<>>, PyStr(ror)),
                  Field("name", <<WithPredicate(RDFS_label)>>, name)>>]

\* class Department(Organization): an organization that is a member of another
Department(ror, name, parent) ==
    [rdf_type |-> SDO_Organization,
     ns |-> ROR,
     fields |-> <<Field("ror", <<>>, PyStr(ror)),
                  Field("name", <<WithPredicate(RDFS_label)>>, name),
                  Field("parent", <<WithPredicate(FOAF_member)>>, Model(parent))>>]

\* class Person(BasePerson): orcid, name, wikidata, affiliations
Person(orcid, name_metadata, name, wikidata_metadata, wikidata, affiliations) ==
    [rdf_type |-> SDO_Person,
     ns |-> ORCID,
     fields |-> <<Field("orcid", <<>>, PyStr(orcid)),
                  Field("name", name_metadata, name),
                  Field("wikidata", wikidata_metadata, wikidata),
                  Field("affiliations", <<WithPredicate(FOAF_member)>>, affiliations)>>]

NFDI == Organization("05qj", PyStr("NFDI"))
Unnamed == Organization("02mh", None)
Chair == Department("04xf", PyStr("Chair"), NFDI)
Hub == Department("05qj", PyStr("Hub"), NFDI)

Organizations == {NFDI, Unnamed, Chair, Hub}

Scalars ==
    {PyStr("Charlie"), PyFloat("0.5"), PyInt("1"), PyBool("True"),
     LiteralValue([k |-> "Literal", lex |-> "2021", dt |-> "xsd:gYear"])}

Unsupported == {None, AnyUrl("https://cthoyt.com/")}

Elements == {PyStr("Charlie"), None, Model(NFDI)}

Lists == {List(items) : items \in SeqsUpTo(Elements, MaxListLen)}

InnerLists == {List(<<>>), List(<<PyStr("Charlie"), Model(Chair)>>)}

NestedLists == {List(<<a, b>>) : a, b \in InnerLists \cup {PyInt("1")}}

Values ==
    Scalars \cup Unsupported \cup {Model(o) : o \in Organizations} \cup Lists \cup NestedLists

NameMetadata ==
    {<<>>, <<MinLen>>, <<WithPredicate(RDFS_label)>>, <<MinLen, WithPredicate(RDFS_label)>>,
     <<WithPredicate(RDFS_label), WithPredicateNamespace(HAS_WIKIDATA, WIKIDATA)>>}

WikidataMetadata == {<<>>, <<WithPredicateNamespace(HAS_WIKIDATA, WIKIDATA)>>}

Persons ==
    {Person("0000", nm, n, wm, w, a) :
        nm \in NameMetadata, n \in {PyStr("Charlie"), None},
        wm \in WikidataMetadata, w \in {PyStr("Q47"), PyFloat("0.5")},
        a \in Lists}

Models == Persons \cup Organizations

\* class Entity(RDFUntypedInstanceBaseModel): uri, name
Entity(uri, name) ==
    [fields |-> <<Field("uri", <<>>, PyStr(uri)),
                  Field("name", <<WithPredicate(RDFS_label)>>, name)>>]

HAS_JUSTIFICATION == URIRef("sssom:mapping_justification")
SEMAPV == "semapv:"

\* class SemanticMapping(RDFTripleBaseModel): s, p, o, justification
SemanticMapping(s, p, o, justification_metadata) ==
    [node |-> URIRef("ex:testuri"),
     fields |-> <<Field("s", <<IsSubject>>, s),
                  Field("p", <<IsPredicate>>, p),
                  Field("o", <<IsObject>>, o),
                  Field("justification", justification_metadata, PyStr("ManualMappingCuration"))>>]

\* a triple record that declares no object
NoObject(s, p) ==
    [node |-> URIRef("ex:testuri"),
     fields |-> <<Field("s", <<IsSubject>>, s), Field("p", <<IsPredicate>>, p)>>]

Subjects ==
    {PydURIRef("obo:CHEBI_10001"), Untyped(Entity("obo:CHEBI_10001", PyStr("Visnadin"))),
     Untyped(Entity("obo:CHEBI_10001", None)), Model(NFDI), PyFloat("1.2")}

Predicates == {PydURIRef("skos:exactMatch"), Untyped(Entity("skos:exactMatch", PyStr("exact")))}

Objects ==
    {PydURIRef("mesh:C067604"), Untyped(Entity("mesh:C067604", PyStr("visnadin"))),
     Model(Chair), PyFloat("1.2")}

Triples ==
    {SemanticMapping(s, p, o, jm) :
        s \in Subjects, p \in Predicates, o \in Objects,
        jm \in {<<>>, <<WithPredicateNamespace(HAS_JUSTIFICATION, SEMAPV)>>}}
    \cup {NoObject(s, p) : s \in Subjects, p \in Predicates}

Nodes == {URIRef(ORCID \o "0000")}

WithPredicates == {WithPredicate(RDFS_label), WithPredicate(FOAF_member)}

WithPredicateNamespaces == {WithPredicateNamespace(HAS_WIKIDATA, WIKIDATA)}

-----------------------------------------------------------------------------
(* The calls *)

Init ==
    /\ graph = {}
    /\ log = <<>>
    /\ err = NoError
    /\ call = [op |-> "Graph"]
    /\ pre = {}
    /\ ncalls = 0

\* the graph of the last call is in the caller's hands: get_graph's graph is not
\* when get_graph raised
Held == ~(call.op \in {"get_graph", "get_graph_triple"} /\ err.type # "")

Returns(result, c, n) ==
    \E st \in {result} :
    /\ graph' = st.graph
    /\ log' = st.log
    /\ err' = st.err
    /\ call' = c
    /\ pre' = (IF c.op \in {"get_graph", "get_graph_triple"} THEN {} ELSE graph)
    /\ ncalls' = n

\* model.get_graph().  It allocates the graph itself, so what it leaves does not
\* depend on the graph of the calls before it: it is taken as the first call of a run
get_graph ==
    /\ call.op = "Graph"
    /\ \E self \in Models :
        Returns(RDFBaseModel_get_graph(self), [op |-> "get_graph", self |-> self], 0)

\* triple.get_graph() of a triple record
get_graph_triple ==
    /\ call.op = "Graph"
    /\ \E self \in Triples :
        Returns(RDFTripleBaseModel_add_to_graph(self, Graph),
                [op |-> "get_graph_triple", self |-> self], 0)

\* model.add_to_graph(graph) on a graph the caller holds
add_to_graph ==
    /\ Held
    /\ ncalls < MaxCalls
    /\ \E self \in Organizations \cup {p \in Persons : p.fields[4].value = List(<<>>)} :
        Returns(RDFInstanceBaseModel_add_to_graph(self, [Graph EXCEPT !.graph = graph]),
                [op |-> "add_to_graph", self |-> self], ncalls + 1)

\* WithPredicate(predicate).add_to_graph(graph, node, value)
WithPredicate_call ==
    /\ Held
    /\ ncalls < MaxCalls
    /\ \E self \in WithPredicates, node \in Nodes, value \in Values :
        Returns(WithPredicate_add_to_graph(self, [Graph EXCEPT !.graph = graph], node, value),
                [op |-> "WithPredicate", annotation |-> self, node |-> node, value |-> value],
                ncalls + 1)

\* WithPredicateNamespace(predicate, namespace).add_to_graph(graph, node, value)
WithPredicateNamespace_call ==
    /\ Held
    /\ ncalls < MaxCalls
    /\ \E self \in WithPredicateNamespaces, node \in Nodes,
          value \in {PyStr("Q47"), PyStr("Charlie"), PyFloat("0.5"), None} :
        Returns(WithPredicateNamespace_add_to_graph(
                    self, [Graph EXCEPT !.graph = graph], node, value),
                [op |-> "WithPredicateNamespace", annotation |-> self, node |-> node,
                 value |-> value],
                ncalls + 1)

Next ==
    \/ get_graph
    \/ get_graph_triple
    \/ add_to_graph
    \/ WithPredicate_call
    \/ WithPredicateNamespace_call

Spec == Init /\ [][Next]_vars

-----------------------------------------------------------------------------
(* Helpers of the properties *)

TypeTriple(self) == <<get_uri(self), RDF_type, self.rdf_type>>

RECURSIVE RecordsIn(_)
\* the records a value holds, at any depth
RecordsIn(value) ==
    IF value.t = "RDFInstanceBaseModel"
    THEN {value.rec}
         \cup UNION {RecordsIn(value.rec.fields[i].value) : i \in DOMAIN value.rec.fields}
    ELSE IF value.t = "list"
    THEN UNION {RecordsIn(value.items[i]) : i \in DOMAIN value.items}
    ELSE {}

NestedRecords(self) == UNION {RecordsIn(self.fields[i].value) : i \in DOMAIN self.fields}

Rendering == call.op \in {"get_graph", "add_to_graph"}

On(g) == [Graph EXCEPT !.graph = g]

-----------------------------------------------------------------------------
(* C1: a typed record's render adds its type triple (node, rdf:type, declared  *)
(* type) first, before any triple of a field, whatever the fields hold; the    *)
(* triple is in the graph, and the record adds it once: it is added again only *)
(* by a nested record of the same node and type.                               *)
C1_TypeTripleFirst ==
    Rendering =>
        /\ Len(log) >= 1
        /\ log[1] = TypeTriple(call.self)
        /\ TypeTriple(call.self) \in graph
        /\ (\A i \in 2..Len(log) : log[i] = TypeTriple(call.self)
                => \E r \in NestedRecords(call.self) : TypeTriple(r) = TypeTriple(call.self))

C1_Witness ==
    /\ call.op = "get_graph"
    /\ err = NoError
    /\ Len(log) >= 4
    /\ \A r \in NestedRecords(call.self) : TypeTriple(r) # TypeTriple(call.self)

-----------------------------------------------------------------------------
(* C2: WithPredicateNamespace(pred, NS).add_to_graph(g, n, X) with a text X    *)
(* adds the one triple (n, pred, NS + X) and keeps every triple of g.          *)
C2_NamespaceConcatenation ==
    (call.op = "WithPredicateNamespace" /\ call.value.t = "str") =>
        /\ err = NoError
        /\ log = << <<call.node, call.annotation.predicate,
                      URIRef(call.annotation.namespace \o call.value.s)>> >>
        /\ graph = pre \cup {log[1]}

C2_Witness ==
    /\ call.op = "WithPredicateNamespace"
    /\ call.value = PyStr("Q47")
    /\ pre # {}
    /\ graph = pre \cup {<<call.node, HAS_WIKIDATA, URIRef("wd:Q47")>>}
    /\ graph # pre

-----------------------------------------------------------------------------
(* C3: WithPredicate(pred).add_to_graph(g, n, list) leaves the graph that the  *)
(* calls on the list's elements, one after the other, leave, when these calls  *)
(* return; the empty list adds nothing.                                        *)
RECURSIVE OneByOne(_, _, _, _)
\* the calls on the elements of items, the last one last
OneByOne(self, st, node, items) ==
    IF items = <<>>
    THEN st
    ELSE LET before == OneByOne(self, st, node, SubSeq(items, 1, Len(items) - 1))
         IN  IF Raised(before)
             THEN before
             ELSE LET last == WithPredicate_add_to_graph(
                                  self, On(before.graph), node, items[Len(items)])
                  IN  [last EXCEPT !.log = before.log \o @]

C3_ListFanOut ==
    (call.op = "WithPredicate" /\ call.value.t = "list") =>
        LET each == OneByOne(call.annotation, On(pre), call.node, call.value.items)
        IN  ~Raised(each) =>
                /\ err = NoError
                /\ graph = each.graph
                /\ log = each.log
                /\ (call.value.items = <<>> => graph = pre)

C3_Witness ==
    /\ call.op = "WithPredicate"
    /\ call.value = List(<<List(<<PyStr("Charlie"), Model(Chair)>>), PyInt("1")>>)
    /\ err = NoError
    /\ Len(log) = 6

-----------------------------------------------------------------------------
-----------------------------------------------------------------------------
(* C5: get_graph() of a person whose list of nested organizations is annotated *)
(* WithPredicate(pred) returns the person's type triple, each organization's   *)
(* own triples and one triple (person, pred, organization) per organization.   *)
C5_NestedLink ==
    (/\ call.op = "get_graph"
     /\ call.self.rdf_type = SDO_Person
     /\ call.self.fields[2].metadata = <<>>
     /\ call.self.fields[3].metadata = <<>>
     /\ \A i \in DOMAIN call.self.fields[4].value.items :
            call.self.fields[4].value.items[i].t = "RDFInstanceBaseModel"
     /\ err = NoError) =>
        graph = {TypeTriple(call.self)}
                \cup UNION {RDFBaseModel_get_graph(call.self.fields[4].value.items[i].rec).graph :
                                i \in DOMAIN call.self.fields[4].value.items}
                \cup {<<get_uri(call.self), FOAF_member,
                        get_uri(call.self.fields[4].value.items[i].rec)>> :
                          i \in DOMAIN call.self.fields[4].value.items}

-----------------------------------------------------------------------------
(* C6: a render gives what the render of the record gives with every field     *)
(* that has no predicate annotation left out, and every metadata entry that is *)
(* no predicate annotation left out: such fields and entries add no triple.    *)
IsAnnotation(entry) == entry.cls \in {"WithPredicate", "WithPredicateNamespace"}

OptedIn(field) == \E j \in DOMAIN field.metadata : IsAnnotation(field.metadata[j])

OnlyAnnotations(field) == [field EXCEPT !.metadata = SelectSeq(@, IsAnnotation)]

\* the record without its fields that are not opted in; the first field stays,
\* the identifier is derived from it
OptedInOnly(self) ==
    [self EXCEPT !.fields =
        <<OnlyAnnotations(@[1])>>
        \o [i \in 1..Len(SelectSeq(Tail(@), OptedIn)) |->
                OnlyAnnotations(SelectSeq(Tail(@), OptedIn)[i])]]

C6_OptInSerialization ==
    Rendering =>
        /\ graph = RDFInstanceBaseModel_add_to_graph(OptedInOnly(call.self), On(pre)).graph
        /\ log = RDFInstanceBaseModel_add_to_graph(OptedInOnly(call.self), On(pre)).log
        /\ err = RDFInstanceBaseModel_add_to_graph(OptedInOnly(call.self), On(pre)).err
        /\ ((\A i \in DOMAIN call.self.fields : ~OptedIn(call.self.fields[i]))
                => log = <<TypeTriple(call.self)>>)

C6_Witness ==
    /\ call.op = "get_graph"
    /\ call.self.rdf_type = SDO_Person
    /\ call.self.fields[2].metadata = <<MinLen>>
    /\ call.self.fields[2].value = PyStr("Charlie")
    /\ call.self.fields[3].metadata = <<>>
    /\ call.self.fields[4].value = List(<<PyStr("Charlie")>>)
    /\ err = NoError
    /\ Len(log) = 2

-----------------------------------------------------------------------------
(* C7: WithPredicate.add_to_graph with a value that is no record, literal,     *)
(* text, number, boolean or list raises NotImplementedError naming the value   *)
(* and adds no triple for it: called with it directly, reaching it in a list   *)
(* after the elements before it, or reading it (None) from a record's field.   *)
Handled == {"RDFInstanceBaseModel", "Literal", "str", "float", "int", "bool", "list"}

Unhandled(value) ==
    [type |-> "NotImplementedError", msg |-> "unhandled: " \o Repr(value)]

-----------------------------------------------------------------------------
(* C8: get_graph() of a record whose field annotated WithPredicateNamespace    *)
(* holds a number raises a TypeError, and adds no triple for that field.       *)
C8_NamespaceRejectsNumber ==
    (/\ call.op = "get_graph"
     /\ call.self.rdf_type = SDO_Person
     /\ call.self.fields[2].value.t = "str"
     /\ call.self.fields[3].metadata # <<>>
     /\ call.self.fields[3].value.t = "float") =>
        /\ err.type = "TypeError"
        /\ \A i \in DOMAIN log :
               ~(log[i][1] = get_uri(call.self) /\ log[i][2] = HAS_WIKIDATA
                 /\ log[i][3] = URIRef(WIKIDATA))

-----------------------------------------------------------------------------
(* C10: fields are handled in declared order, and a render that raises is one  *)
(* that stops at one field k: the exception is the one the field's annotation  *)
(* raised, the graph holds the type triple and what the fields before k and    *)
(* the annotation up to its failure added, nothing of a field after k, and     *)
(* every triple it held before.                                                *)
Prefix(self, k) == [self EXCEPT !.fields = SubSeq(@, 1, k)]

IsPrefix(s, t) == Len(s) <= Len(t) /\ SubSeq(t, 1, Len(s)) = s

IsSuffix(s, t) == Len(s) <= Len(t) /\ SubSeq(t, Len(t) - Len(s) + 1, Len(t)) = s

C10_FailFast ==
    (Rendering /\ err # NoError) =>
        \E k \in 2..Len(call.self.fields) :
            LET before == RDFInstanceBaseModel_add_to_graph(Prefix(call.self, k - 1), On(pre))
                upto == RDFInstanceBaseModel_add_to_graph(Prefix(call.self, k), On(pre))
                field == call.self.fields[k]
            IN  /\ ~Raised(before)
                /\ Raised(upto)
                /\ log[1] = TypeTriple(call.self)
                /\ IsPrefix(before.log, log)
                /\ before.graph \subseteq graph
                /\ log = upto.log
                /\ graph = upto.graph
                /\ pre \subseteq graph
                /\ \E j \in DOMAIN field.metadata :
                       LET failing == PredicateAnnotation_add_to_graph(
                                          field.metadata[j], Graph, get_uri(call.self),
                                          field.value)
                       IN  /\ IsAnnotation(field.metadata[j])
                           /\ failing.err = err
                           /\ IsSuffix(failing.log, log)
                           /\ Len(before.log) + Len(failing.log) <= Len(log)

C10_Witness ==
    /\ call.op = "get_graph"
    /\ call.self.rdf_type = SDO_Person
    /\ call.self.fields[2].metadata = <<WithPredicate(RDFS_label)>>
    /\ call.self.fields[2].value = PyStr("Charlie")
    /\ call.self.fields[3].metadata # <<>>
    /\ call.self.fields[4].value = List(<<Model(NFDI), None>>)
    /\ err = Unhandled(None)
    /\ Len(log) = 5

-----------------------------------------------------------------------------
(* C9: a triple record's render that returns gives the base triple (S, P, O),  *)
(* the four triples of the statement node (type rdf:Statement, subject S,      *)
(* predicate P, object O), the triples of the nested records of the roles and  *)
(* the triples of the annotated fields, at the statement node; nothing else.   *)
RoleValue(self, role) == self.fields[CHOOSE i \in RoleFields(self, role) : TRUE].value

\* the node of a role's value and the triples of its own render
RoleNode(value) ==
    CASE value.t = "RDFInstanceBaseModel" -> get_uri(value.rec)
      [] value.t = "RDFUntypedInstanceBaseModel" -> URIRef(value.rec.fields[1].value.s)
      [] OTHER -> URIRef(value.s)

RoleTriples(value) ==
    CASE value.t = "RDFInstanceBaseModel" -> RDFBaseModel_get_graph(value.rec).graph
      [] value.t = "RDFUntypedInstanceBaseModel" ->
            {<<URIRef(value.rec.fields[1].value.s), RDFS_label,
               [k |-> "Literal", lex |-> value.rec.fields[2].value.s, dt |-> ""]>>}
      [] OTHER -> {}

MetadataTriples(self) ==
    {<<self.node, self.fields[i].metadata[1].predicate,
       URIRef(self.fields[i].metadata[1].namespace \o self.fields[i].value.s)>> :
        i \in {j \in DOMAIN self.fields :
                 self.fields[j].metadata # <<>>
                 /\ self.fields[j].metadata[1].cls = "WithPredicateNamespace"}}

====
